---- MODULE Spec2Model ----
(***************************************************************************)
(* Decode half of the hue-encoding pipeline: the artifact detector         *)
(* (contains_black_pixels), the layout-shift detector (has_hue_shifted)    *)
(* and the page-pair locator (locate_entities) of                          *)
(* data-processing/common/locate_entities.py.                              *)
(*                                                                         *)
(* Pixels are BGR triples <<b, g, r>> of 8-bit channels, images are rows   *)
(* of pixels.  Hues and tolerances, floats in [0,1) in the code, are kept  *)
(* in hundredths (hue 0.99 is 99); hue arithmetic is exact, in fifths of   *)
(* an OpenCV hue unit, so that hue * 180 is the integer 9 * hundredths.    *)
(***************************************************************************)
EXTENDS Integers, Sequences, FiniteSets, TLC

VARIABLES
    px,                \* the last call of a pixel-level detector: arguments and result
    pc,                \* position of locate_entities / its consumer
    entity_hues,       \* argument: sequence of <<entity id, hue>> (dict order)
    output_paths,      \* the document's output files, in get_output_files order
    file_index,        \* position of the loop over output_paths
    black_pixels_found,
    entity_locations,  \* defaultdict(list): entity id -> sequence of boxes
    page_images,       \* dict of the current file, as <<page_number, image>> in insertion order
    result,            \* what the call returned
    listed,            \* names os.listdir has yielded so far in the current directory
    images_read,       \* history: every value cv2.imread returned during the call
    names_read,        \* history: every file name the directory listings yielded
    missing_dir,       \* history: a diff directory was found missing
    extract_log,       \* history: the calls of extract_bounding_boxes, in call order
    out_file,          \* the file at args.citations_output_file: absent, or its content
    writers,           \* the write_to_file invocations of concurrent workers
    batch,             \* a batch run of WriteCitationsOutput: items left, saves done
    ld,                \* a run of a load stage: documents, files on disk, items yielded
    df                 \* a run of DiffImagesCommand.load: loop position and events

vars == <<px, pc, entity_hues, output_paths, file_index, black_pixels_found,
          entity_locations, page_images, result, listed, images_read, names_read,
          missing_dir, extract_log, out_file, writers, batch, ld, df>>

\* the state of the export, load and diff stages
rest_vars == <<out_file, writers, batch, ld, df>>

locate_vars == <<pc, entity_hues, output_paths, file_index, black_pixels_found,
                 entity_locations, page_images, result, listed, images_read,
                 names_read, missing_dir, extract_log>>

----------------------------------------------------------------------------
(* Bounds of the model.                                                    *)

\* width of the one-row images handed to the pixel-level detectors
ImgWidth == 2
\* output files of a document
MaxFiles == 2
\* files in one diff directory
MaxImages == 2
\* documents of one batch run
MaxDocs == 2

\* iterations of modified rasters of a paper
MaxIterations == 2

----------------------------------------------------------------------------
(* cv2.cvtColor(img, cv2.COLOR_BGR2HSV) on 8-bit images: OpenCV's          *)
(* fixed-point conversion (hsv_shift = 12, hue range 180).                 *)

Max2(a, b) == IF a >= b THEN a ELSE b

Min2(a, b) == IF a <= b THEN a ELSE b

Abs(x) == IF x < 0 THEN -x ELSE x

\* cvRound(num / den) for num, den > 0 (no tie occurs for the tables below)
RoundDiv(num, den) == (2 * num + den) \div (2 * den)

\* sdiv_table[v] = cvRound((255 << 12) / v), sdiv_table[0] = 0
SDivTable(v) == IF v = 0 THEN 0 ELSE RoundDiv(255 * 4096, v)

\* hdiv_table180[diff] = cvRound((180 << 12) / (6 * diff)), hdiv_table180[0] = 0
HDivTable180(diff) == IF diff = 0 THEN 0 ELSE RoundDiv(180 * 4096, 6 * diff)

\* <<h, s, v>> of the BGR pixel p
BGR2HSV(p) ==
    LET b == p[1]
        g == p[2]
        r == p[3]
        v == Max2(b, Max2(g, r))
        vmin == Min2(b, Min2(g, r))
        diff == v - vmin
        s == (diff * SDivTable(v) + 2048) \div 4096
        hraw == IF v = r THEN g - b
                ELSE IF v = g THEN b - r + 2 * diff
                ELSE r - g + 4 * diff
        hq == (hraw * HDivTable180(diff) + 2048) \div 4096
        h == IF hq < 0 THEN hq + 180 ELSE hq
    IN  <<h, s, v>>

\* cvtColor on a whole image
cvtColor(img) == [i \in DOMAIN img |-> BGR2HSV(img[i])]

----------------------------------------------------------------------------
(* contains_black_pixels                                                    *)

BlackSaturationThreshold == 20

BlackValueThreshold == 150

\* variant: a dark pixel counts whatever its saturation
contains_black_pixels_ValueOnly(img) ==
    LET img_hsv == cvtColor(img)
    IN  \E i \in DOMAIN img : img_hsv[i][3] < BlackValueThreshold

contains_black_pixels(img) ==
    LET img_hsv == cvtColor(img)
        low_saturation == [i \in DOMAIN img |-> img_hsv[i][2] < BlackSaturationThreshold]
        low_value == [i \in DOMAIN img |-> img_hsv[i][3] < BlackValueThreshold]
        both == [i \in DOMAIN img |-> low_saturation[i] /\ low_value[i]]
    IN  \E i \in DOMAIN img : both[i]

----------------------------------------------------------------------------
(* has_hue_shifted                                                          *)

CV2_MAXIMUM_HUE == 180

VALUE_THRESHOLD == 230

SATURATION_THRESHOLD == 10

\* variant: a bright pixel counts as blank whatever its saturation
BlankMask_ValueOnly(hsv) == [i \in DOMAIN hsv |-> hsv[i][3] > VALUE_THRESHOLD]

\* np.logical_and(hsv[:, :, 1] < SATURATION_THRESHOLD, hsv[:, :, 2] > VALUE_THRESHOLD)
BlankMask(hsv) ==
    [i \in DOMAIN hsv |-> hsv[i][2] < SATURATION_THRESHOLD /\ hsv[i][3] > VALUE_THRESHOLD]

\* np.logical_xor(blank_before, blank_after)
FillChanges(blank_before, blank_after) ==
    [i \in DOMAIN blank_before |-> blank_before[i] # blank_after[i]]

\* variant: linear distance, no wraparound
AbsDistanceToHue_Linear(after_hue, hue) == Abs(5 * after_hue - 9 * hue)

\* np.minimum(d, CV2_MAXIMUM_HUE - d) for d = |after_hue - hue * 180|, times 5
AbsDistanceToHue(after_hue, hue) ==
    LET distance_to_hue == Abs(5 * after_hue - 9 * hue)
    IN  Min2(distance_to_hue, 5 * CV2_MAXIMUM_HUE - distance_to_hue)

\* abs_distance_to_hue <= tolerance * 180, times 5
HueMask(hsv, hue, tolerance) ==
    [i \in DOMAIN hsv |-> AbsDistanceToHue(hsv[i][1], hue) <= 9 * tolerance]

has_hue_shifted(before, after, hue, tolerance) ==
    LET before_hsv == cvtColor(before)
        after_hsv == cvtColor(after)
        blank_before == BlankMask(before_hsv)
        blank_after == BlankMask(after_hsv)
        fill_changes == FillChanges(blank_before, blank_after)
        hue_mask == HueMask(after_hsv, hue, tolerance)
    IN  \E i \in DOMAIN after : hue_mask[i] /\ fill_changes[i]

----------------------------------------------------------------------------
(* Inputs of the pixel-level detectors.                                     *)

White == <<255, 255, 255>>

Black == <<0, 0, 0>>

\* hue 0, fully saturated
Red == <<0, 0, 255>>

\* OpenCV hue 2 (0.01 of the hue range), fully saturated
RedHue2 == <<0, 17, 255>>

\* OpenCV hue 178 (0.99 of the hue range), fully saturated
RedHue178 == <<17, 0, 255>>

\* OpenCV hue 60, fully saturated
Green == <<0, 255, 0>>

\* saturation 10, value 255: just not blank
PaleRed == <<245, 245, 255>>

\* saturation 0, value 230: just not blank
LightGray == <<230, 230, 230>>

BlackPalette ==
    {White, Black, Red, <<0, 0, 100>>, <<149, 149, 149>>, <<150, 150, 150>>,
     <<138, 138, 149>>, <<137, 137, 149>>}

HuePalette == {White, Black, Red, RedHue2, RedHue178, PaleRed, LightGray}

\* target hues, in hundredths of the hue range
Hues == {1, 2, 99}

\* tolerances, in hundredths of the hue range (0.02 is the default)
Tolerances == {2, 3}

Images(palette) == [1..ImgWidth -> palette]

NoCall == [op |-> "none"]

\* one call of contains_black_pixels
CallContainsBlackPixels ==
    /\ px = NoCall
    /\ \E img \in Images(BlackPalette) :
          px' = [op |-> "contains_black_pixels", img |-> img,
                 ret |-> contains_black_pixels(img)]
    /\ UNCHANGED <<locate_vars, rest_vars>>

\* one call of has_hue_shifted
CallHasHueShifted ==
    /\ px = NoCall
    /\ \E before \in Images(HuePalette), after \in Images(HuePalette),
          hue \in Hues, tolerance \in Tolerances :
          px' = [op |-> "has_hue_shifted", before |-> before, after |-> after,
                 hue |-> hue, tolerance |-> tolerance,
                 ret |-> has_hue_shifted(before, after, hue, tolerance)]
    /\ UNCHANGED <<locate_vars, rest_vars>>

----------------------------------------------------------------------------
(* locate_entities: the environment it reads.                               *)

EntityIds == {"e1", "e2"}

\* the hue the colorizer assigned to an entity, in hundredths: e1 red, e2 green
AssignedHue(entity_id) == IF entity_id = "e1" THEN 0 ELSE 33

\* the entity_hues arguments: dicts over e1, e2 in either insertion order
EntityHuesInputs ==
    {<<>>, <<"e1">>, <<"e2">>, <<"e1", "e2">>, <<"e2", "e1">>}

\* file names as token sequences, the extension last: page-1.png, page-2.png,
\* 1.png (no prefix), page-x.png (no number), page-1.jpg (page 1 a second time)
FileNames ==
    {<<"page-", "1", ".png">>, <<"page-", "2", ".png">>, <<"1", ".png">>,
     <<"page-", "x", ".png">>, <<"page-", "1", ".jpg">>}

Digits == {"1", "2"}

DigitValue(token) == IF token = "1" THEN 1 ELSE 2

\* what cv2.imread returns: an image, or None for a file it cannot decode
NoImage == [ok |-> FALSE, data |-> <<>>]

Loaded(data) == [ok |-> TRUE, data |-> data]

\* page rasters found in diff directories
PageRasters == {Loaded(<<Red, White, Red>>), Loaded(<<Black, Green, White>>)}

None == [kind |-> "None"]

Range(seq) == {seq[i] : i \in DOMAIN seq}

----------------------------------------------------------------------------
(* extract_bounding_boxes (common/bounding_box.py): one box per maximal run *)
(* of pixels of the hue, in raster order.                                   *)

\* a pixel of the hue: within the default tolerance 0.02, and not a gray
HueMatches(pixel, hue) ==
    LET hsv == BGR2HSV(pixel)
    IN  AbsDistanceToHue(hsv[1], hue) <= 9 * 2 /\ hsv[2] >= 128 /\ hsv[3] >= 128

RECURSIVE RunEnd(_, _, _)
\* last position of the run of hue pixels that starts at i
RunEnd(data, hue, i) ==
    IF i < Len(data) /\ HueMatches(data[i + 1], hue)
    THEN RunEnd(data, hue, i + 1)
    ELSE i

RECURSIVE BoxesFrom(_, _, _, _)
\* the boxes of the runs that start at position i or later
BoxesFrom(data, page_number, hue, i) ==
    IF i > Len(data) THEN <<>>
    ELSE IF HueMatches(data[i], hue)
    THEN LET last == RunEnd(data, hue, i)
         IN  <<[page |-> page_number, left |-> i, width |-> last - i + 1]>>
                 \o BoxesFrom(data, page_number, hue, last + 1)
    ELSE BoxesFrom(data, page_number, hue, i + 1)

extract_bounding_boxes(image, page_number, hue) ==
    BoxesFrom(image.data, page_number, hue, 1)

----------------------------------------------------------------------------
(* locate_entities: helpers.                                                *)

\* os.path.splitext(img_name)[0]
SplitextStem(img_name) == SubSeq(img_name, 1, Len(img_name) - 1)

\* str.replace("page-", ""): every occurrence goes
ReplacePagePrefix(stem) == SelectSeq(stem, LAMBDA token : token # "page-")

\* whether int() accepts the text
IntParses(text) == text # <<>> /\ \A i \in DOMAIN text : text[i] \in Digits

RECURSIVE IntValue(_)
\* int() of a text of digits
IntValue(text) ==
    IF text = <<>> THEN 0
    ELSE 10 * IntValue(SubSeq(text, 1, Len(text) - 1)) + DigitValue(text[Len(text)])

\* int(os.path.splitext(img_name)[0].replace("page-", "")) - 1
PageNumber(img_name) == IntValue(ReplacePagePrefix(SplitextStem(img_name))) - 1

PageNumberParses(img_name) == IntParses(ReplacePagePrefix(SplitextStem(img_name)))

\* page_images[page_number] = page_image: a new key goes last, a key already
\* there keeps its place and takes the new value
DictPut(dict, key, value) ==
    IF \E k \in DOMAIN dict : dict[k][1] = key
    THEN [k \in DOMAIN dict |-> IF dict[k][1] = key THEN <<key, value>> ELSE dict[k]]
    ELSE Append(dict, <<key, value>>)

RECURSIVE FileBoxes(_, _)
\* the boxes the inner loop over page_images.items() collects for one hue
FileBoxes(pages, hue) ==
    IF pages = <<>> THEN <<>>
    ELSE extract_bounding_boxes(pages[1][2], pages[1][1], hue)
             \o FileBoxes(Tail(pages), hue)

\* variant: every entity collects the boxes of the first entity's hue
LocationsAfter_FirstHue(locations, hues, pages) ==
    LET found == IF hues = <<>> THEN <<>> ELSE FileBoxes(pages, hues[1][2])
        keys == DOMAIN locations \cup {hues[k][1] : k \in {j \in DOMAIN hues : found # <<>>}}
    IN  [e \in keys |->
            (IF e \in DOMAIN locations THEN locations[e] ELSE <<>>)
                \o (IF \E k \in DOMAIN hues : hues[k][1] = e THEN found ELSE <<>>)]

\* variant: the boxes of a file go in front of those already collected
LocationsAfter_Prepends(locations, hues, pages) ==
    LET gets(e) == \E k \in DOMAIN hues : hues[k][1] = e /\ FileBoxes(pages, hues[k][2]) # <<>>
        hue_of(e) == (CHOOSE k \in DOMAIN hues : hues[k][1] = e)
        keys == DOMAIN locations \cup {e \in EntityIds : gets(e)}
    IN  [e \in keys |->
            (IF gets(e) THEN FileBoxes(pages, hues[hue_of(e)][2]) ELSE <<>>)
                \o (IF e \in DOMAIN locations THEN locations[e] ELSE <<>>)]

\* entity_locations after the loops over entity_hues.items() and
\* page_images.items(): a key appears with its first appended box
LocationsAfter(locations, hues, pages) ==
    LET gets(e) == \E k \in DOMAIN hues : hues[k][1] = e /\ FileBoxes(pages, hues[k][2]) # <<>>
        hue_of(e) == (CHOOSE k \in DOMAIN hues : hues[k][1] = e)
        keys == DOMAIN locations \cup {e \in EntityIds : gets(e)}
    IN  [e \in keys |->
            (IF e \in DOMAIN locations THEN locations[e] ELSE <<>>)
                \o (IF gets(e) THEN FileBoxes(pages, hues[hue_of(e)][2]) ELSE <<>>)]

\* variant: the flag takes the last image's verdict
BlackFlagAfter_Overwrites(flag, page_image) == contains_black_pixels(page_image.data)

\* if contains_black_pixels(page_image): black_pixels_found = True
BlackFlagAfter(flag, page_image) == flag \/ contains_black_pixels(page_image.data)

RECURSIVE PageCalls(_, _, _)
\* the extractor calls of one entity over the pages of a file
PageCalls(file, hue_item, pages) ==
    IF pages = <<>> THEN <<>>
    ELSE <<[file |-> file, entity |-> hue_item[1], hue |-> hue_item[2],
            image |-> pages[1][2], page |-> pages[1][1],
            boxes |-> extract_bounding_boxes(pages[1][2], pages[1][1], hue_item[2])]>>
             \o PageCalls(file, hue_item, Tail(pages))

RECURSIVE FileCalls(_, _, _)
\* the extractor calls of a file: entities outside, pages inside
FileCalls(file, hues, pages) ==
    IF hues = <<>> THEN <<>>
    ELSE PageCalls(file, hues[1], pages) \o FileCalls(file, Tail(hues), pages)

----------------------------------------------------------------------------
(* locate_entities, one step per loop iteration, and the consumer of its   *)
(* result.                                                                  *)

\* no file at the destination path
Absent == [exists |-> FALSE]

\* the concurrent workers that export to one destination
Workers == {1, 2}

NoWriter ==
    [pc |-> "idle", entity_infos |-> <<>>, wrote |-> FALSE, sequel |-> FALSE,
     raced |-> FALSE]

NoBatch == [pc |-> "idle", saves |-> <<>>]

NoLoad == [pc |-> "idle"]

NoDiff == [pc |-> "idle"]

Init ==
    /\ out_file = Absent
    /\ writers = [w \in Workers |-> NoWriter]
    /\ batch = NoBatch
    /\ ld = NoLoad
    /\ df = NoDiff
    /\ px = NoCall
    /\ pc = "idle"
    /\ entity_hues = <<>>
    /\ output_paths = <<>>
    /\ file_index = 1
    /\ black_pixels_found = FALSE
    /\ entity_locations = <<>>
    /\ page_images = <<>>
    /\ result = None
    /\ listed = {}
    /\ images_read = {}
    /\ names_read = {}
    /\ missing_dir = FALSE
    /\ extract_log = <<>>

\* the call: arguments, get_output_files, and the two initialisations
Call ==
    /\ pc = "idle"
    /\ \E ids \in EntityHuesInputs, n \in 0..MaxFiles :
          /\ entity_hues' = [k \in DOMAIN ids |-> <<ids[k], AssignedHue(ids[k])>>]
          /\ output_paths' = [i \in 1..n |-> i]
    /\ file_index' = 1
    /\ black_pixels_found' = FALSE
    /\ entity_locations' = <<>>
    /\ pc' = "file"
    /\ UNCHANGED rest_vars
    /\ UNCHANGED <<px, page_images, result, listed, images_read, names_read,
                   missing_dir, extract_log>>

\* variant: the missing directory is skipped and the loop goes on
DirMissing_SkipsFile ==
    /\ pc = "file"
    /\ file_index <= Len(output_paths)
    /\ page_images' = <<>>
    /\ missing_dir' = TRUE
    /\ file_index' = file_index + 1
    /\ UNCHANGED rest_vars
    /\ UNCHANGED <<px, pc, entity_hues, output_paths, black_pixels_found, result,
                   entity_locations, listed, images_read, names_read, extract_log>>

\* the diff directory of the next output file does not exist: return None
DirMissing ==
    /\ pc = "file"
    /\ file_index <= Len(output_paths)
    /\ page_images' = <<>>
    /\ missing_dir' = TRUE
    /\ result' = None
    /\ pc' = "failed"
    /\ UNCHANGED rest_vars
    /\ UNCHANGED <<px, entity_hues, output_paths, file_index, black_pixels_found,
                   entity_locations, listed, images_read, names_read, extract_log>>

\* the diff directory exists: start on its listing
DirFound ==
    /\ pc = "file"
    /\ file_index <= Len(output_paths)
    /\ page_images' = <<>>
    /\ listed' = {}
    /\ pc' = "list"
    /\ UNCHANGED rest_vars
    /\ UNCHANGED <<px, entity_hues, output_paths, file_index, black_pixels_found,
                   entity_locations, result, images_read, names_read, missing_dir,
                   extract_log>>

\* one file of the listing: imread, the artifact check, the page number
ReadImage ==
    /\ pc = "list"
    /\ Cardinality(listed) < MaxImages
    /\ \E img_name \in FileNames \ listed, page_image \in PageRasters \cup {NoImage} :
          /\ listed' = listed \cup {img_name}
          /\ names_read' = names_read \cup {img_name}
          /\ images_read' = images_read \cup {page_image}
          /\ IF ~page_image.ok
             THEN \* cv2.cvtColor(None, ...) raises cv2.error
                  /\ pc' = "raised"
                  /\ UNCHANGED <<black_pixels_found, page_images>>
             ELSE /\ black_pixels_found' = BlackFlagAfter(black_pixels_found, page_image)
                  /\ IF ~PageNumberParses(img_name)
                     THEN \* int() raises ValueError
                          /\ pc' = "raised"
                          /\ UNCHANGED page_images
                     ELSE /\ page_images' =
                                DictPut(page_images, PageNumber(img_name), page_image)
                          /\ pc' = "list"
    /\ UNCHANGED rest_vars
    /\ UNCHANGED <<px, entity_hues, output_paths, file_index, entity_locations,
                   result, missing_dir, extract_log>>

\* the listing is over: the extraction loops of the file
ExtractFile ==
    /\ pc = "list"
    /\ entity_locations' = LocationsAfter(entity_locations, entity_hues, page_images)
    /\ extract_log' = extract_log \o FileCalls(file_index, entity_hues, page_images)
    /\ file_index' = file_index + 1
    /\ pc' = "file"
    /\ UNCHANGED rest_vars
    /\ UNCHANGED <<px, entity_hues, output_paths, black_pixels_found, page_images,
                   result, listed, images_read, names_read, missing_dir>>

\* the LocationResult built at the end of the call
LocationResult(locations, black) ==
    [kind |-> "LocationResult", locations |-> locations, shifted_entities |-> <<>>,
     first_shifted_entity |-> None, black_pixels_found |-> black]

\* every output file is done: return the result
Return ==
    /\ pc = "file"
    /\ file_index > Len(output_paths)
    /\ result' = LocationResult(entity_locations, black_pixels_found)
    /\ pc' = "returned"
    /\ UNCHANGED rest_vars
    /\ UNCHANGED <<px, entity_hues, output_paths, file_index, black_pixels_found,
                   entity_locations, page_images, listed, images_read, names_read,
                   missing_dir, extract_log>>

\* defaultdict.__getitem__: a missing key is inserted with list()
DefaultDictGet(locations, key) ==
    IF key \in DOMAIN locations
    THEN locations
    ELSE [e \in DOMAIN locations \cup {key} |->
             IF e = key THEN <<>> ELSE locations[e]]

\* a consumer reads result.locations[entity_id]
Lookup ==
    /\ pc \in {"returned", "consumed"}
    /\ \E entity_id \in EntityIds :
          result' = [result EXCEPT !.locations = DefaultDictGet(@, entity_id)]
    /\ pc' = "consumed"
    /\ UNCHANGED rest_vars
    /\ UNCHANGED <<px, entity_hues, output_paths, file_index, black_pixels_found,
                   entity_locations, page_images, listed, images_read, names_read,
                   missing_dir, extract_log>>

Next ==
    \/ Call
    \/ DirMissing
    \/ DirFound
    \/ ReadImage
    \/ ExtractFile
    \/ Return
    \/ Lookup

Spec == Init /\ [][Next]_vars

NextPixels ==
    \/ CallContainsBlackPixels
    \/ CallHasHueShifted

SpecPixels == Init /\ [][NextPixels]_vars

----------------------------------------------------------------------------
(* Properties of locate_entities.                                           *)

HueKeys == {entity_hues[k][1] : k \in DOMAIN entity_hues}

HueOfKey(entity_id) ==
    entity_hues[CHOOSE k \in DOMAIN entity_hues : entity_hues[k][1] = entity_id][2]

BoxesOf(locations, entity_id) ==
    IF entity_id \in DOMAIN locations THEN locations[entity_id] ELSE <<>>

\* C1: once the diff directory of an output file is found missing, the call has
\* returned None: no LocationResult is returned for the document, whatever
\* boxes earlier output files contributed.
C1_MissingDirFailsDocument ==
    missing_dir => (pc = "failed" /\ result = None)

C1_Witness ==
    /\ missing_dir
    /\ pc = "failed"
    /\ file_index = 2
    /\ \E e \in DOMAIN entity_locations : entity_locations[e] # <<>>

\* C2: in a returned LocationResult, black_pixels_found is true exactly when
\* contains_black_pixels is true of some page image read from some diff
\* directory of the document.
C2_BlackFlagIsOrOverPages ==
    pc = "returned" =>
        (result.black_pixels_found <=>
            \E image \in images_read : image.ok /\ contains_black_pixels(image.data))

\* a black page was read in the first file, a clean page after it in the second
C2_Witness ==
    /\ pc = "returned"
    /\ result.black_pixels_found
    /\ Len(output_paths) = 2
    /\ Len(page_images) = 1
    /\ ~contains_black_pixels(page_images[1][2].data)
    /\ Cardinality(names_read) = 1

\* C3: in a returned LocationResult, the keys of locations are keys of
\* entity_hues, and every box under entity E is one the extractor returns for
\* E's hue on a page image read from a diff directory of the document.
C3_BoxesComeFromEntityHue ==
    pc = "returned" =>
        /\ DOMAIN result.locations \subseteq HueKeys
        /\ \A e \in DOMAIN result.locations :
              \A box \in Range(result.locations[e]) :
                 \E image \in images_read :
                    /\ image.ok
                    /\ box \in Range(extract_bounding_boxes(image, box.page, HueOfKey(e)))

\* two entities, both with boxes, and a third page image that gave one of them none
C3_Witness ==
    /\ pc = "returned"
    /\ Len(entity_hues) = 2
    /\ DOMAIN result.locations = {"e1", "e2"}
    /\ Cardinality(images_read) = 2

PageOrdered(boxes) ==
    \A i, j \in DOMAIN boxes :
       i < j => /\ boxes[i].page <= boxes[j].page
                /\ boxes[i].page = boxes[j].page => boxes[i].left < boxes[j].left

\* C4 as stated: in a returned LocationResult every entity's boxes are in page
\* order, boxes of one page in discovery order, for any number of output
\* files and any listing order.
C4_BoxesInPageOrder ==
    pc = "returned" => \A e \in DOMAIN result.locations : PageOrdered(result.locations[e])

RECURSIVE LoggedBoxes(_, _)
\* the boxes the logged extractor calls returned for an entity, in call order
LoggedBoxes(log, entity_id) ==
    IF log = <<>> THEN <<>>
    ELSE (IF log[1].entity = entity_id THEN log[1].boxes ELSE <<>>)
             \o LoggedBoxes(Tail(log), entity_id)

PagesAscending(pages) ==
    \A i, j \in DOMAIN pages : i < j => pages[i][1] < pages[j][1]

\* C4 amended: an entity's boxes are in extraction order: they are the boxes of
\* the extractor calls for that entity in call order, so boxes of one page of
\* one file keep discovery order; the calls go file by file in output order and
\* take each page of a file once; and the boxes are in page order when the
\* document has one output file whose listing yields the pages in ascending
\* order.
C4_BoxesInExtractionOrder ==
    pc = "returned" =>
        /\ \A e \in EntityIds : BoxesOf(result.locations, e) = LoggedBoxes(extract_log, e)
        /\ \A i, j \in DOMAIN extract_log :
              (i < j /\ extract_log[i].entity = extract_log[j].entity) =>
                 /\ extract_log[i].file <= extract_log[j].file
                 /\ extract_log[i].file = extract_log[j].file =>
                       extract_log[i].page # extract_log[j].page
        /\ \A k \in DOMAIN extract_log :
              \A i, j \in DOMAIN extract_log[k].boxes :
                 i < j => extract_log[k].boxes[i].left < extract_log[k].boxes[j].left
        /\ (Len(output_paths) = 1 /\ PagesAscending(page_images)) =>
              \A e \in DOMAIN result.locations : PageOrdered(result.locations[e])

\* two output files: the box of page 1 of the first precedes the boxes of
\* page 0 of the second
C4_Witness ==
    /\ pc = "returned"
    /\ Len(output_paths) = 2
    /\ "e1" \in DOMAIN result.locations
    /\ Len(result.locations["e1"]) = 4
    /\ result.locations["e1"][1].page = 1
    /\ result.locations["e1"][3].page = 0

\* the page-<n>.<ext> convention
FollowsConvention(img_name) ==
    /\ Len(img_name) = 3
    /\ img_name[1] = "page-"
    /\ img_name[2] \in Digits
    /\ img_name[3] \in {".png", ".jpg"}

\* C8: when a listed file name does not follow the page-<n>.<ext> convention,
\* locate_entities does not return a LocationResult.
C8_MalformedNameFails ==
    (\E img_name \in names_read : ~FollowsConvention(img_name)) =>
        pc \notin {"returned", "consumed"}

\* C9: when a page image cannot be loaded, locate_entities reports the
\* document-level failure (returns None) instead of raising.
C9_UnloadableImageFailsDocument ==
    NoImage \in images_read => (pc = "failed" /\ result = None)

\* C10: a returned LocationResult is not changed by any read of a consumer.
C10_ResultNotMutated ==
    [][(pc \in {"returned", "consumed"}) => (result' = result)]_vars

----------------------------------------------------------------------------
(* Properties of the pixel-level detectors.                                 *)

Hsv(pixel) == BGR2HSV(pixel)

\* blank as the claim words it: saturation < 10 and value > 230
StatedBlank(pixel) == Hsv(pixel)[2] < 10 /\ Hsv(pixel)[3] > 230

\* min(d, 180 - d) <= tolerance on the 0..180 scale, for the hue of a pixel
\* and a target hue and tolerance in hundredths (all times 5)
StatedHueMatch(pixel, hue, tolerance) ==
    LET d == Abs(5 * Hsv(pixel)[1] - 9 * hue)
    IN  (d <= 9 * tolerance) \/ (900 - d <= 9 * tolerance)

FillFlips(i) == StatedBlank(px.before[i]) # StatedBlank(px.after[i])

ColoredInHue(pixel, hue, tolerance) ==
    StatedHueMatch(pixel, hue, tolerance) /\ ~StatedBlank(pixel)

\* C6 as stated: before is a white page (the rectangle is white on white),
\* after differs from it only by pixels colored in the target hue: the result
\* is false.
C6_RecolorOfWhiteNotShifted ==
    (/\ px.op = "has_hue_shifted"
     /\ \A i \in DOMAIN px.before : px.before[i] = White
     /\ \E i \in DOMAIN px.after : px.after[i] # White
     /\ \A i \in DOMAIN px.after :
           px.after[i] = White \/ ColoredInHue(px.after[i], px.hue, px.tolerance))
        => ~px.ret

\* before and after differ only at pixels that are not blank in before and are
\* colored in the target hue in after
RecolorInPlace ==
    /\ px.op = "has_hue_shifted"
    /\ \E i \in DOMAIN px.after : px.after[i] # px.before[i]
    /\ \A i \in DOMAIN px.after :
          \/ px.after[i] = px.before[i]
          \/ /\ ~StatedBlank(px.before[i])
             /\ ColoredInHue(px.after[i], px.hue, px.tolerance)

\* C6 amended: has_hue_shifted is false for a recolor in place of content that
\* is not blank in before (ink, not white): the rectangle's pixels are
\* non-blank in before and colored in the target hue in after, every other
\* pixel identical.
C6_RecolorOfInkNotShifted == RecolorInPlace => ~px.ret

\* a black pixel turned red beside an untouched white one
C6_Witness ==
    /\ RecolorInPlace
    /\ \E i \in DOMAIN px.after : px.before[i] = Black /\ px.after[i] = Red
    /\ \E i \in DOMAIN px.after : px.before[i] = White /\ px.after[i] = White

\* C7: contains_black_pixels is true exactly when some pixel has saturation
\* < 20 and value < 150; so it is false for white plus saturated colors, and
\* true whenever a pure black pixel is there.
C7_BlackIffDarkUnsaturatedPixel ==
    px.op = "contains_black_pixels" =>
        /\ px.ret <=>
              \E i \in DOMAIN px.img : Hsv(px.img[i])[2] < 20 /\ Hsv(px.img[i])[3] < 150
        /\ (\A i \in DOMAIN px.img : px.img[i] = White \/ Hsv(px.img[i])[2] >= 128)
              => ~px.ret
        /\ (\E i \in DOMAIN px.img : px.img[i] = Black) => px.ret

\* white beside a dark, saturated red: no black pixel
C7_Witness ==
    /\ px.op = "contains_black_pixels"
    /\ ~px.ret
    /\ \E i \in DOMAIN px.img : px.img[i] = White
    /\ \E i \in DOMAIN px.img : Hsv(px.img[i])[2] >= 128 /\ Hsv(px.img[i])[3] < 150

----------------------------------------------------------------------------
(* Further properties of locate_entities and has_hue_shifted.               *)

\* C16: in a returned call whose listed file names all follow page-<n>.<ext>,
\* every image read from a diff directory (and so checked for artifacts) was
\* handed to the extractor for every entity of entity_hues, also when two file
\* names of a directory give one page number.
C16_EveryImageReadIsExtracted ==
    (pc = "returned" /\ \A img_name \in names_read : FollowsConvention(img_name)) =>
        \A image \in images_read :
           \A e \in HueKeys :
              \E k \in DOMAIN extract_log :
                 extract_log[k].image = image /\ extract_log[k].entity = e

\* C17: has_hue_shifted is true only when some pixel is blank in before,
\* non-blank in after and of the target hue in after.
C17_ShiftOnlyForNewContent ==
    (px.op = "has_hue_shifted" /\ px.ret) =>
        \E i \in DOMAIN px.after :
           /\ StatedBlank(px.before[i])
           /\ ~StatedBlank(px.after[i])
           /\ StatedHueMatch(px.after[i], px.hue, px.tolerance)

----------------------------------------------------------------------------
(* WriteCitationsOutput.save and write_to_file                              *)
(* (entities/citations/commands/write_citations_output.py).                 *)

CitationKeys == {"k1", "k2"}

\* the S2 id a citation key resolved to
S2IdOf(citation_key) == <<"s2", citation_key>>

\* the boxes of one cluster of a citation
LocationSet(citation_key, cluster_index) ==
    <<[page |-> cluster_index, left |-> 1, width |-> 1]>>

\* the clusters a citation key can come with: index -> boxes, in dict order
ClusterInputs(citation_key) ==
    IF citation_key = "k1"
    THEN {<<<<0, LocationSet("k1", 0)>>>>,
          <<<<0, LocationSet("k1", 0)>>, <<1, LocationSet("k1", 1)>>>>}
    ELSE {<<<<0, LocationSet("k2", 0)>>>>}

LocationEntries ==
    UNION {{<<citation_key, locations>> : locations \in ClusterInputs(citation_key)} :
              citation_key \in CitationKeys}

\* item.citation_locations: citation key -> cluster index -> boxes, in dict order
CitationLocationsInputs ==
    {locs \in UNION {[1..n -> LocationEntries] : n \in 0..2} :
        \A i, j \in DOMAIN locs : i # j => locs[i][1] # locs[j][1]}

\* item.key_s2_ids: the citation keys that were resolved
KeyS2IdsInputs == {[k \in resolved |-> S2IdOf(k)] : resolved \in SUBSET CitationKeys}

\* the CitationData items load can yield
Items ==
    [citation_locations : CitationLocationsInputs, key_s2_ids : KeyS2IdsInputs]

\* f"{citation_key}-{cluster_index}"
FormatId(citation_key, cluster_index) == <<citation_key, "-", cluster_index>>

EntityUploadInfo(id_, type_, bounding_boxes, data) ==
    [id_ |-> id_, type_ |-> type_, bounding_boxes |-> bounding_boxes, data |-> data]

RECURSIVE ClusterInfos(_, _, _)
\* the inner loop of save: one EntityUploadInfo per cluster of a citation key
ClusterInfos(citation_key, locations, key_s2_ids) ==
    IF locations = <<>> THEN <<>>
    ELSE <<EntityUploadInfo(FormatId(citation_key, locations[1][1]), "citation",
                            locations[1][2],
                            [key |-> citation_key, paper_id |-> key_s2_ids[citation_key]])>>
             \o ClusterInfos(citation_key, Tail(locations), key_s2_ids)

RECURSIVE EntityInfos_StopsAtUnresolved(_, _)
\* variant: an unresolved key ends the loop (break for continue)
EntityInfos_StopsAtUnresolved(citation_locations, key_s2_ids) ==
    IF citation_locations = <<>> THEN <<>>
    ELSE IF citation_locations[1][1] \notin DOMAIN key_s2_ids THEN <<>>
    ELSE ClusterInfos(citation_locations[1][1], citation_locations[1][2], key_s2_ids)
             \o EntityInfos_StopsAtUnresolved(Tail(citation_locations), key_s2_ids)

RECURSIVE EntityInfos(_, _)
\* the outer loop of save: entity_infos, unresolved keys skipped
EntityInfos(citation_locations, key_s2_ids) ==
    IF citation_locations = <<>> THEN <<>>
    ELSE (IF citation_locations[1][1] \notin DOMAIN key_s2_ids
          THEN <<>>
          ELSE ClusterInfos(citation_locations[1][1], citation_locations[1][2],
                            key_s2_ids))
             \o EntityInfos(Tail(citation_locations), key_s2_ids)

\* to_write: the versioned container
ToWrite(entity_infos, format_version) ==
    [version |-> format_version, data |-> entity_infos]

\* json.dump(to_write, output_file): the text, a header chunk and one chunk per
\* entity info
JsonDump(to_write) == <<[version |-> to_write.version]>> \o to_write.data

\* write(2) at offset 0 of a file opened without O_APPEND
WriteAtStart(content, text) ==
    text \o SubSeq(content, Len(text) + 1, Len(content))

\* variant: the destination is written whether it exists or not
WriteToFile_Overwrites(file, entity_infos, format_version) ==
    [exists |-> TRUE, content |-> JsonDump(ToWrite(entity_infos, format_version))]

\* write_to_file, run without interruption: the destination after the call
WriteToFile(file, entity_infos, format_version) ==
    IF file.exists
    THEN file
    ELSE [exists |-> TRUE, content |-> JsonDump(ToWrite(entity_infos, format_version))]

\* the batch calls save for the next item load yields
SaveNext ==
    /\ Len(batch.saves) < MaxDocs
    /\ \E item \in Items :
          LET entity_infos == EntityInfos(item.citation_locations, item.key_s2_ids)
              format_version == "v0"
          IN  /\ out_file' = WriteToFile(out_file, entity_infos, format_version)
              /\ batch' = [pc |-> "running",
                           saves |-> Append(batch.saves,
                                       [item |-> item, entity_infos |-> entity_infos,
                                        to_write |-> ToWrite(entity_infos, format_version)])]
    /\ UNCHANGED <<px, locate_vars, writers, ld, df>>

NextSave == SaveNext

SpecSave == Init /\ [][NextSave]_vars

----------------------------------------------------------------------------
(* write_to_file step by step, for invocations by concurrent workers on    *)
(* one destination path.                                                    *)

\* the entity infos a worker can be handed
EntityInfosInputs ==
    {EntityInfos(item.citation_locations, item.key_s2_ids) : item \in Items}

\* the invocation: arguments, the log line and to_write
WInvoke ==
    /\ \E w \in Workers, entity_infos \in EntityInfosInputs :
          /\ writers[w].pc = "idle"
          /\ writers' = [writers EXCEPT ![w] =
                [pc |-> "exists", entity_infos |-> entity_infos, wrote |-> FALSE,
                 sequel |-> (\E o \in Workers \ {w} : writers[o].pc = "done"),
                 raced |-> FALSE]]
    /\ UNCHANGED <<px, locate_vars, out_file, batch, ld, df>>

\* variant: the existence check is skipped, the worker always goes on to write
WExists_Overwrites ==
    /\ \E w \in Workers :
          /\ writers[w].pc = "exists"
          /\ writers' = [writers EXCEPT
                ![w].pc = "open",
                ![w].raced = (\E o \in Workers \ {w} : writers[o].pc \in {"open", "dump"})]
    /\ UNCHANGED <<px, locate_vars, out_file, batch, ld, df>>

\* variant: the test is inverted, a worker writes only onto an existing file
WExists_Inverted ==
    /\ \E w \in Workers :
          /\ writers[w].pc = "exists"
          /\ writers' = [writers EXCEPT
                ![w].pc = (IF out_file.exists THEN "open" ELSE "done"),
                ![w].raced = (\E o \in Workers \ {w} : writers[o].pc \in {"open", "dump"})]
    /\ UNCHANGED <<px, locate_vars, out_file, batch, ld, df>>

\* if os.path.exists(output_file_name): warn and return, else go on to open
WExists ==
    /\ \E w \in Workers :
          /\ writers[w].pc = "exists"
          /\ writers' = [writers EXCEPT
                ![w].pc = (IF out_file.exists THEN "done" ELSE "open"),
                ![w].raced = (\E o \in Workers \ {w} : writers[o].pc \in {"open", "dump"})]
    /\ UNCHANGED <<px, locate_vars, out_file, batch, ld, df>>

\* open(output_file_name, 'w'): the file is created or truncated
WOpen ==
    /\ \E w \in Workers :
          /\ writers[w].pc = "open"
          /\ writers' = [writers EXCEPT ![w].pc = "dump"]
    /\ out_file' = [exists |-> TRUE, content |-> <<>>]
    /\ UNCHANGED <<px, locate_vars, batch, ld, df>>

\* json.dump and the close of the with block: the text reaches the file
WDump ==
    /\ \E w \in Workers :
          /\ writers[w].pc = "dump"
          /\ out_file' = [exists |-> TRUE,
                          content |-> WriteAtStart(out_file.content,
                                         JsonDump(ToWrite(writers[w].entity_infos, "v0")))]
          /\ writers' = [writers EXCEPT ![w].pc = "done", ![w].wrote = TRUE]
    /\ UNCHANGED <<px, locate_vars, batch, ld, df>>

NextWrite ==
    \/ WInvoke
    \/ WExists
    \/ WOpen
    \/ WDump

SpecWrite == Init /\ [][NextWrite]_vars

----------------------------------------------------------------------------
(* Properties of the export writer.                                         *)

\* what a completed write_to_file of these entity infos leaves in the file
ExportOf(entity_infos) ==
    [exists |-> TRUE, content |-> JsonDump(ToWrite(entity_infos, "v0"))]

\* C11: an invocation made after another one on the same destination has
\* completed writes nothing: from then on the file holds, byte for byte, what
\* the first invocation wrote, whatever entity infos the second was given.
C11_SecondInvocationWritesNothing ==
    \A w \in Workers :
       writers[w].sequel =>
          /\ ~writers[w].wrote
          /\ writers[w].pc \in {"exists", "done"}
          /\ \E o \in Workers \ {w} :
                /\ writers[o].wrote
                /\ out_file = ExportOf(writers[o].entity_infos)

\* the second invocation has returned, and it was given other entity infos
C11_Witness ==
    \E w \in Workers, o \in Workers :
       /\ writers[w].sequel
       /\ writers[w].pc = "done"
       /\ writers[o].wrote
       /\ writers[w].entity_infos # writers[o].entity_infos
       /\ writers[w].entity_infos # <<>>

\* C12 as stated: under any interleaving at most one of the two invocations
\* writes, and the file never holds anything but one invocation's export.
C12_AtMostOneWriterUnderAnyInterleaving ==
    /\ ~(\A w \in Workers : writers[w].wrote)
    /\ (\A w \in Workers : writers[w].pc = "done") =>
          \E w \in Workers : writers[w].wrote /\ out_file = ExportOf(writers[w].entity_infos)

\* C12 amended: when the invocations are mutually exclusive (no worker makes
\* its existence check while another is between its own check and its close),
\* at most one of them writes and the other refuses, and the file holds
\* exactly the writer's export.
C12_AtMostOneWriterUnderMutualExclusion ==
    (\A w \in Workers : ~writers[w].raced) =>
        /\ ~(\A w \in Workers : writers[w].wrote)
        /\ (\A w \in Workers : writers[w].pc = "done") =>
              \E w \in Workers :
                 /\ writers[w].wrote
                 /\ out_file = ExportOf(writers[w].entity_infos)

\* both were invoked before either checked, the checks did not overlap a
\* write, one wrote and the other refused
C12_Witness ==
    /\ \A w \in Workers : writers[w].pc = "done" /\ ~writers[w].raced /\ ~writers[w].sequel
    /\ \E w \in Workers : writers[w].wrote
    /\ \E w \in Workers : ~writers[w].wrote

\* the (citation key, cluster index) pairs of citation_locations
Pairs(citation_locations) ==
    UNION {{<<citation_locations[i][1], citation_locations[i][2][j][1]>> :
               j \in DOMAIN citation_locations[i][2]} :
              i \in DOMAIN citation_locations}

\* C13: in every save, entity_infos holds exactly one EntityUploadInfo for each
\* (citation key, cluster index) pair whose key is in key_s2_ids, with id
\* <key>-<cluster index> and type citation, and none for any other key; the
\* container carries version v0.
C13_OneInfoPerResolvedCluster ==
    \A k \in DOMAIN batch.saves :
       LET save == batch.saves[k]
           resolved == DOMAIN save.item.key_s2_ids
           infos == save.entity_infos
       IN  /\ \A pair \in Pairs(save.item.citation_locations) :
                 Cardinality({i \in DOMAIN infos :
                                 infos[i].id_ = <<pair[1], "-", pair[2]>>})
                    = (IF pair[1] \in resolved THEN 1 ELSE 0)
           /\ \A i \in DOMAIN infos :
                 /\ infos[i].type_ = "citation"
                 /\ infos[i].data.key \in resolved
                 /\ infos[i].data.paper_id = save.item.key_s2_ids[infos[i].data.key]
                 /\ \E pair \in Pairs(save.item.citation_locations) :
                       infos[i].id_ = <<pair[1], "-", pair[2]>> /\ infos[i].data.key = pair[1]
           /\ save.to_write.version = "v0"
           /\ save.to_write.data = infos

\* an unresolved key comes first, a resolved key with its cluster after it
C13_Witness ==
    \E k \in DOMAIN batch.saves :
       LET save == batch.saves[k]
       IN  /\ Len(save.item.citation_locations) = 2
           /\ save.item.citation_locations[1][1] \notin DOMAIN save.item.key_s2_ids
           /\ Len(save.entity_infos) = 1

\* C15: for every document save was invoked for, the document's entity infos
\* are in the written export.
C15_EverySavedDocumentIsExported ==
    \A k \in DOMAIN batch.saves :
       \A info \in Range(batch.saves[k].entity_infos) :
          out_file.exists /\ info \in Range(out_file.content)

----------------------------------------------------------------------------
(* The load stages of WriteCitationsOutput and UploadSymbols: a loop over  *)
(* arxiv_ids; each document's files of the earlier stages are looked at    *)
(* when the loop reaches the document.                                     *)

Commands == {"WriteCitationsOutput", "UploadSymbols"}

\* what a command's load stage looks at
FilesOf(command) ==
    IF command = "WriteCitationsOutput"
    THEN {"citation-locations", "resolutions.csv", "s2_id", "references.csv"}
    ELSE {"s2_id", "symbols", "symbol_locations.csv", "matches.csv"}

\* os.path.exists on a file of the document
path_exists(present, file) == file \in present

\* load_located_citations(arxiv_id): None when the locations are missing
load_located_citations(present) ==
    IF "citation-locations" \in present THEN [kind |-> "locations"] ELSE None

\* get_s2_id(arxiv_id): None when the s2_id file is missing
get_s2_id(present) ==
    IF "s2_id" \in present THEN [kind |-> "s2_id"] ELSE None

\* file_utils.load_symbols(arxiv_id): None when the symbols are missing
load_symbols(present) ==
    IF "symbols" \in present THEN [kind |-> "symbols"] ELSE None

Skipped(file) == [yielded |-> FALSE, missing |-> file]
Yielded == [yielded |-> TRUE, missing |-> "nothing"]

\* the body of the loop of WriteCitationsOutput.load for one arxiv_id
CitationsLoadBody(present) ==
    IF load_located_citations(present) = None THEN Skipped("citation-locations")
    ELSE IF ~path_exists(present, "resolutions.csv") THEN Skipped("resolutions.csv")
    ELSE IF ~path_exists(present, "s2_id") THEN Skipped("s2_id")
    ELSE IF ~path_exists(present, "references.csv") THEN Skipped("references.csv")
    ELSE Yielded

\* the body of the loop of UploadSymbols.load for one arxiv_id
SymbolsLoadBody(present) ==
    IF get_s2_id(present) = None THEN Skipped("s2_id")
    ELSE IF load_symbols(present) = None THEN Skipped("symbols")
    ELSE IF ~path_exists(present, "symbol_locations.csv") THEN Skipped("symbol_locations.csv")
    ELSE IF ~path_exists(present, "matches.csv") THEN Skipped("matches.csv")
    ELSE Yielded

LoadBody(command, present) ==
    IF command = "WriteCitationsOutput"
    THEN CitationsLoadBody(present)
    ELSE SymbolsLoadBody(present)

\* load() is called on a command with arxiv_ids of some length
LoadStart ==
    /\ ld.pc = "idle"
    /\ \E command \in Commands, n \in 1..MaxDocs :
          ld' = [pc |-> "loop", command |-> command, arxiv_ids |-> n, docs |-> <<>>]
    /\ UNCHANGED <<px, locate_vars, out_file, writers, batch, df>>

\* variant: a missing file ends the loop (break for continue)
LoadIteration_StopsAtMissing ==
    /\ ld.pc = "loop"
    /\ Len(ld.docs) < ld.arxiv_ids
    /\ \E present \in SUBSET FilesOf(ld.command) :
          LET outcome == LoadBody(ld.command, present)
          IN  ld' = [ld EXCEPT
                       !.docs = Append(@, [present |-> present,
                                           yielded |-> outcome.yielded,
                                           missing |-> outcome.missing]),
                       !.pc = IF outcome.yielded THEN "loop" ELSE "done"]
    /\ UNCHANGED <<px, locate_vars, out_file, writers, batch, df>>

\* one iteration of for arxiv_id in self.arxiv_ids: continue or yield
LoadIteration ==
    /\ ld.pc = "loop"
    /\ Len(ld.docs) < ld.arxiv_ids
    /\ \E present \in SUBSET FilesOf(ld.command) :
          LET outcome == LoadBody(ld.command, present)
          IN  ld' = [ld EXCEPT
                       !.docs = Append(@, [present |-> present,
                                           yielded |-> outcome.yielded,
                                           missing |-> outcome.missing])]
    /\ UNCHANGED <<px, locate_vars, out_file, writers, batch, df>>

\* arxiv_ids is exhausted, the generator returns
LoadEnd ==
    /\ ld.pc = "loop"
    /\ Len(ld.docs) = ld.arxiv_ids
    /\ ld' = [ld EXCEPT !.pc = "done"]
    /\ UNCHANGED <<px, locate_vars, out_file, writers, batch, df>>

NextLoad ==
    \/ LoadStart
    \/ LoadIteration
    \/ LoadEnd

SpecLoad == Init /\ [][NextLoad]_vars

\* C14: a document with a missing prerequisite file is skipped without an
\* item, a document with all of them is yielded, and when load returns every
\* document of arxiv_ids has been examined.
C14_MissingPrerequisiteSkipsOnlyThatDocument ==
    (ld.pc \in {"loop", "done"}) =>
        /\ \A k \in DOMAIN ld.docs :
              ld.docs[k].yielded <=> (FilesOf(ld.command) \subseteq ld.docs[k].present)
        /\ (ld.pc = "done") => (Len(ld.docs) = ld.arxiv_ids)

\* a document with a missing file was skipped and the next one was yielded
C14_Witness ==
    /\ ld.pc = "done"
    /\ \E k \in DOMAIN ld.docs :
          /\ k + 1 \in DOMAIN ld.docs
          /\ ~ld.docs[k].yielded
          /\ ld.docs[k].missing \in FilesOf(ld.command)
          /\ ld.docs[k + 1].yielded

----------------------------------------------------------------------------
(* DiffImagesCommand.load: for each paper, for each iteration, for each    *)
(* compiled PDF, for each page image of the original rendering, the        *)
(* modified image is looked up and the pair is yielded.                    *)

\* the positions of the three inner loops are exhausted
EndOfPaper == [iteration |-> 0, pdf |-> 0, img |-> 0]

\* the first position at or after (iteration, pdf, img) that holds an image,
\* as the nested for loops reach it; pdf_images[p] is the number of names
\* os.listdir gives for the p-th PDF
RECURSIVE Advance(_, _, _, _, _)
Advance(pdf_images, iterations, iteration, pdf, img) ==
    IF iteration > iterations THEN EndOfPaper
    ELSE IF pdf > Len(pdf_images)
         THEN Advance(pdf_images, iterations, iteration + 1, 1, 1)
         ELSE IF img > pdf_images[pdf]
              THEN Advance(pdf_images, iterations, iteration, pdf + 1, 1)
              ELSE [iteration |-> iteration, pdf |-> pdf, img |-> img]

\* the results get_compiled_pdfs and os.listdir can give for one paper
PdfImagesInputs ==
    UNION {[1..k -> 0..MaxImages] : k \in 0..MaxFiles}

\* the loops move to a position, or leave the paper
DiffAt(d, pos) ==
    IF pos = EndOfPaper
    THEN [d EXCEPT !.pc = "paper", !.iteration = 0, !.pdf = 0, !.img = 0]
    ELSE [d EXCEPT !.pc = "image", !.iteration = pos.iteration,
                   !.pdf = pos.pdf, !.img = pos.img]

\* load() is called with arxiv_ids of some length
DiffStart ==
    /\ df.pc = "idle"
    /\ \E n \in 1..MaxDocs :
          df' = [pc |-> "paper", arxiv_ids |-> n, paper |-> 0,
                 pdf_images |-> <<>>, iterations |-> 0,
                 iteration |-> 0, pdf |-> 0, img |-> 0,
                 warned |-> FALSE, last |-> "none"]
    /\ UNCHANGED <<px, locate_vars, out_file, writers, batch, ld>>

\* the next arxiv_id: clean_directory, get_compiled_pdfs (continue when there
\* are none), then the loops are entered
DiffPaper ==
    /\ df.pc = "paper"
    /\ df.paper < df.arxiv_ids
    /\ \E pdf_images \in PdfImagesInputs, iterations \in 0..MaxIterations :
          LET d == [df EXCEPT !.paper = @ + 1, !.pdf_images = pdf_images,
                              !.iterations = iterations,
                              !.warned = FALSE, !.last = "none"]
          IN  df' = IF Len(pdf_images) = 0
                    THEN DiffAt(d, EndOfPaper)
                    ELSE DiffAt(d, Advance(pdf_images, iterations, 1, 1, 1))
    /\ UNCHANGED <<px, locate_vars, out_file, writers, batch, ld>>

\* the modified image does not exist: warning, break out of the loop over
\* the images of this PDF
DiffImageMissing ==
    /\ df.pc = "image"
    /\ df' = DiffAt([df EXCEPT !.warned = TRUE, !.last = "warning"],
                    Advance(df.pdf_images, df.iterations, df.iteration, df.pdf + 1, 1))
    /\ UNCHANGED <<px, locate_vars, out_file, writers, batch, ld>>

\* the modified image exists: both are read and the PageRasterPair is yielded
DiffImageYield ==
    /\ df.pc = "image"
    /\ df' = DiffAt([df EXCEPT !.last = "yield"],
                    Advance(df.pdf_images, df.iterations, df.iteration, df.pdf, df.img + 1))
    /\ UNCHANGED <<px, locate_vars, out_file, writers, batch, ld>>

\* arxiv_ids is exhausted, the generator returns
DiffEnd ==
    /\ df.pc = "paper"
    /\ df.paper = df.arxiv_ids
    /\ df' = [df EXCEPT !.pc = "done"]
    /\ UNCHANGED <<px, locate_vars, out_file, writers, batch, ld>>

NextDiff ==
    \/ DiffStart
    \/ DiffPaper
    \/ DiffImageMissing
    \/ DiffImageYield
    \/ DiffEnd

SpecDiff == Init /\ [][NextDiff]_vars

\* C18: once the warning for a missing modified image has been logged for a
\* paper, no page pair of that paper is yielded any more, and when load
\* returns every paper of arxiv_ids has been processed.
C18_NoPairOfThePaperAfterWarning ==
    (df.pc # "idle") =>
        /\ (df.last = "yield") => ~df.warned
        /\ (df.pc = "done") => (df.paper = df.arxiv_ids)

====
